---- MODULE Spec2Model ----
(***************************************************************************)
(* Lead-CRM: the lead scoring function (services/storageService.ts), the  *)
(* aggregation pipelines of the Analytics page (pages/Analytics.tsx), the  *)
(* lead store with the handlers of LeadList and LeadDetail, and the        *)
(* follow-up email of services/geminiService.ts.                           *)
(*                                                                         *)
(* Strings of the program that are only compared for equality are TLA+     *)
(* strings (the en dash of the budget ranges is written "-").  Strings     *)
(* that the program builds and orders (the period keys) are sequences of   *)
(* one-character strings, ordered by UTF-16 code unit.                     *)
(***************************************************************************)
EXTENDS Integers, Sequences, FiniteSets, TLC

VARIABLES
    lead,          \* the lead passed to calculateLeadScore; LeadDetail: useState<Lead | null>
    activities,    \* the history passed to calculateLeadScore; LeadDetail: useState<Activity[]>
    score,         \* scoring: the value returned by calculateLeadScore
    scored,        \* scoring: TRUE once calculateLeadScore has returned
    fetched,       \* Analytics: the rows getLeads(user) resolves with
    leads,         \* Analytics: useState<Lead[]>([])
    loading,       \* Analytics: useState(true)
    funnelData,    \* Analytics: rows of the funnel chart
    revenueData,   \* Analytics: rows of the revenue trend chart
    teamData,      \* Analytics: rows of the team leaderboard
    sourceConversionData,  \* Analytics: rows of the conversion-by-source chart
    stat,          \* Analytics: the sourceStats entry passed to the row mapper
    rateRow,       \* Analytics: the row the mapper returns for stat (Null before)
    user,          \* AuthContext: the signed-in user
    now,           \* the clock read by Date.now() and new Date(): it advances
                   \* with every handler that posts to the backend
    sheetLeads,    \* backend: the rows of the Leads sheet below the header
    sheetActivities,  \* backend: the rows of the Activities sheet below the header
    isSubmitting,  \* LeadList: useState(false)
    isSavingActivity,  \* LeadDetail: useState(false)
    targetValue,   \* LeadDetail: e.target.value of the latest change event of
                   \* the stage select ("" before)
    inputLead,     \* LeadDetail: the object handleStageChange read as lead, as
                   \* it is when the handler has run (Null before)
    apiKey,        \* process.env.API_KEY ("" when it is not configured)
    isGeneratingEmail,  \* LeadDetail: useState(false)
    aiEmail,       \* LeadDetail: useState<{ subject; body } | null>(null)
    response       \* the reply of the text-generation service to the latest
                   \* generateContent call (Null when none was made)

scoreVars == <<lead, activities, score, scored>>

analyticsVars == <<fetched, leads, loading, funnelData, revenueData,
                   teamData, sourceConversionData>>

rateVars == <<stat, rateRow>>

storeVars == <<user, now, sheetLeads, sheetActivities, isSubmitting,
               isSavingActivity, targetValue, inputLead>>

emailVars == <<apiKey, isGeneratingEmail, aiEmail, response>>

vars == <<scoreVars, analyticsVars, rateVars, storeVars, emailVars>>

----------------------------------------------------------------------------
(* Bounds *)

MaxActs == 5
MaxFunnelLeads == 4
MaxRevenueLeads == 3
MaxTeamLeads == 3
MaxSourceLeads == 4
MaxRateTotal == 80
MaxTime == 3
MaxPast == 2

SeqsUpTo(S, n) == UNION {[1..k -> S] : k \in 0..n}

Min(a, b) == IF a < b THEN a ELSE b

----------------------------------------------------------------------------
(* types.ts *)

Stage == {"New", "Contacted", "Qualified", "Proposal", "Won", "Lost"}

Status == {"Open", "Won", "Lost", "On Hold"}

Source == {"Website", "Referral", "LinkedIn", "Event", "Cold Call"}

BudgetRange == {"<1L", "1-5L", "5-10L", ">10L"}

ActivityOutcome == {"Interested", "Follow-up Required", "No Response", "Not Interested"}

\* a value outside the enum, as sheet data can hold
Unrecognized == "Unrecognized"

----------------------------------------------------------------------------
(* calculateLeadScore, services/storageService.ts *)

Null == [isNull |-> TRUE]

SourceScoreElse(l) ==
    IF l.source = "Referral" THEN 20
    ELSE IF l.source = "Website" THEN 10
    ELSE 5

SourceScore(l) ==
    IF l.source = "Referral" THEN 20
    ELSE IF l.source = "Website" THEN 10
    ELSE IF l.source = "Cold Call" THEN 5
    ELSE 0

BudgetScoreShifted(l) ==
    IF l.budgetRange = ">10L" THEN 30
    ELSE IF l.budgetRange = "5-10L" THEN 30
    ELSE IF l.budgetRange = "1-5L" THEN 20
    ELSE 0

BudgetScoreDoubled(l) ==
    IF l.budgetRange = ">10L" THEN 60
    ELSE IF l.budgetRange = "5-10L" THEN 40
    ELSE IF l.budgetRange = "1-5L" THEN 20
    ELSE 0

BudgetScore(l) ==
    IF l.budgetRange = ">10L" THEN 30
    ELSE IF l.budgetRange = "5-10L" THEN 20
    ELSE IF l.budgetRange = "1-5L" THEN 10
    ELSE 0

LastActivityOldest(leadActivities) ==
    IF Len(leadActivities) > 0 THEN leadActivities[Len(leadActivities)] ELSE Null

LastActivity(leadActivities) ==
    IF Len(leadActivities) > 0 THEN leadActivities[1] ELSE Null

EngagementScorePenalty(leadActivities) ==
    LET lastActivity == LastActivity(leadActivities) IN
    IF lastActivity # Null
    THEN (IF lastActivity.outcome = "Interested" THEN 20 ELSE 0)
         + (IF lastActivity.outcome = "Follow-up Required" THEN 10 ELSE 0)
         - (IF lastActivity.outcome = "Not Interested" THEN 20 ELSE 0)
    ELSE 0

EngagementScore(leadActivities) ==
    LET lastActivity == LastActivity(leadActivities) IN
    IF lastActivity # Null
    THEN (IF lastActivity.outcome = "Interested" THEN 20 ELSE 0)
         + (IF lastActivity.outcome = "Follow-up Required" THEN 10 ELSE 0)
    ELSE 0

VolumeScoreFlipped(leadActivities) ==
    IF Len(leadActivities) < 3 THEN 10 ELSE 0

VolumeScoreAtLeast3(leadActivities) ==
    IF Len(leadActivities) >= 3 THEN 10 ELSE 0

VolumeScore(leadActivities) ==
    IF Len(leadActivities) > 3 THEN 10 ELSE 0

calculateLeadScore(l, leadActivities) ==
    Min(SourceScore(l) + BudgetScore(l)
        + EngagementScore(leadActivities) + VolumeScore(leadActivities), 100)

----------------------------------------------------------------------------
(* Scoring specification: the inputs are drawn from the enums plus one     *)
(* unrecognized value each, the action applies calculateLeadScore.         *)

ScoreLeads ==
    {[source |-> s, budgetRange |-> b] :
        s \in Source \cup {Unrecognized}, b \in BudgetRange \cup {Unrecognized}}

ScoreActivities == {[outcome |-> o] : o \in ActivityOutcome \cup {Unrecognized}}

AnalyticsIdle ==
    /\ fetched = <<>>
    /\ leads = <<>>
    /\ loading = TRUE
    /\ funnelData = <<>>
    /\ revenueData = <<>>
    /\ teamData = <<>>
    /\ sourceConversionData = <<>>
    /\ stat = Null
    /\ rateRow = Null

ScoringIdle ==
    /\ lead = [source |-> "Website", budgetRange |-> "1-5L"]
    /\ activities = <<>>
    /\ score = 0
    /\ scored = FALSE

\* nobody is signed in and the sheets hold their header rows only
StoreIdle ==
    /\ user = Null
    /\ now = 0
    /\ sheetLeads = <<>>
    /\ sheetActivities = <<>>
    /\ isSubmitting = FALSE
    /\ isSavingActivity = FALSE
    /\ targetValue = ""
    /\ inputLead = Null

\* no API key is configured and no email was asked for
EmailIdle ==
    /\ apiKey = ""
    /\ isGeneratingEmail = FALSE
    /\ aiEmail = Null
    /\ response = Null

InitScore ==
    /\ lead \in ScoreLeads
    /\ activities \in SeqsUpTo(ScoreActivities, MaxActs)
    /\ score = 0
    /\ scored = FALSE
    /\ AnalyticsIdle
    /\ StoreIdle
    /\ EmailIdle

ApplyScore ==
    /\ ~scored
    /\ score' = calculateLeadScore(lead, activities)
    /\ scored' = TRUE
    /\ UNCHANGED <<lead, activities, analyticsVars, rateVars, storeVars, emailVars>>

NextScore == ApplyScore

SpecScore == InitScore /\ [][NextScore]_vars

----------------------------------------------------------------------------
(* Analytics page, pages/Analytics.tsx *)

COLORS == <<"#3b82f6", "#6366f1", "#8b5cf6", "#d946ef", "#ec4899">>

stageOrderWithLost == <<"New", "Contacted", "Qualified", "Proposal", "Won", "Lost">>

stageOrder == <<"New", "Contacted", "Qualified", "Proposal", "Won">>

\* acc[k] || 0 on a plain object whose own keys are DOMAIN acc
OrZero(acc, k) == IF k \in DOMAIN acc /\ acc[k] # 0 THEN acc[k] ELSE 0

\* acc[k] = v
Put(acc, k, v) == [x \in DOMAIN acc \cup {k} |-> IF x = k THEN v ELSE acc[x]]

RECURSIVE ReduceStage(_, _)
ReduceStage(ls, acc) ==
    IF ls = <<>> THEN acc
    ELSE ReduceStage(Tail(ls),
                     Put(acc, Head(ls).stage, OrZero(acc, Head(ls).stage) + 1))

funnelRawCounts(ls) == ReduceStage(ls, <<>>)

\* the "simple view" the source comments on: leads in the stage or a later one
funnelValueCumulative(ls, index) ==
    LET raw == funnelRawCounts(ls)
        F[i \in index..Len(stageOrder)] ==
            OrZero(raw, stageOrder[i]) + (IF i = Len(stageOrder) THEN 0 ELSE F[i + 1])
    IN F[index]

funnelValue(ls, index) == OrZero(funnelRawCounts(ls), stageOrder[index])

computeFunnelData(ls) ==
    [index \in 1..Len(stageOrder) |->
        [name |-> stageOrder[index],
         value |-> funnelValue(ls, index),
         fill |-> COLORS[((index - 1) % Len(COLORS)) + 1]]]

(* Text: a string is a sequence of characters; CharCode is the UTF-16 code  *)
(* unit of the characters that occur in a period key.                       *)

DigitChars == <<"0", "1", "2", "3", "4", "5", "6", "7", "8", "9">>

CharCode(c) ==
    CASE c = "-" -> 45
      [] c = "0" -> 48 [] c = "1" -> 49 [] c = "2" -> 50 [] c = "3" -> 51
      [] c = "4" -> 52 [] c = "5" -> 53 [] c = "6" -> 54 [] c = "7" -> 55
      [] c = "8" -> 56 [] c = "9" -> 57

\* String(n) for a non-negative integer
RECURSIVE NumberToString(_)
NumberToString(n) ==
    IF n < 10 THEN <<DigitChars[n + 1]>>
    ELSE NumberToString(n \div 10) \o <<DigitChars[(n % 10) + 1]>>

padStartNone(str, targetLength, padChar) == str

padStart(str, targetLength, padChar) ==
    IF Len(str) >= targetLength THEN str
    ELSE [i \in 1..(targetLength - Len(str)) |-> padChar] \o str

\* a.localeCompare(b) on the characters of a period key: -1, 0 or 1
RECURSIVE localeCompare(_, _)
localeCompare(a, b) ==
    IF a = <<>> /\ b = <<>> THEN 0
    ELSE IF a = <<>> THEN -1
    ELSE IF b = <<>> THEN 1
    ELSE IF CharCode(Head(a)) < CharCode(Head(b)) THEN -1
    ELSE IF CharCode(Head(a)) > CharCode(Head(b)) THEN 1
    ELSE localeCompare(Tail(a), Tail(b))

\* new Date(createdAt): createdAt carries the calendar year and month (1..12)
\* of the timestamp in the viewer's time zone; getMonth() counts from 0
NewDate(createdAt) == [fullYear |-> createdAt.year, month |-> createdAt.month - 1]

getFullYear(date) == date.fullYear

getMonth(date) == date.month

monthKey(l) ==
    LET date == NewDate(l.createdAt) IN
    NumberToString(getFullYear(date)) \o <<"-">>
        \o padStart(NumberToString(getMonth(date) + 1), 2, "0")

\* the accumulator object is the sequence of its values in insertion order,
\* each value carrying its key in .name
HasKey(acc, key) == \E i \in DOMAIN acc : acc[i].name = key

revenueStepAnyStatus(acc, l) ==
    LET key == monthKey(l)
        acc1 == IF ~HasKey(acc, key)
                THEN Append(acc, [name |-> key, expected |-> 0, closed |-> 0])
                ELSE acc
    IN [i \in DOMAIN acc1 |->
          IF acc1[i].name = key
          THEN [acc1[i] EXCEPT !.expected = @ + l.expectedValue,
                               !.closed = @ + l.dealValue]
          ELSE acc1[i]]

revenueStep(acc, l) ==
    LET key == monthKey(l)
        acc1 == IF ~HasKey(acc, key)
                THEN Append(acc, [name |-> key, expected |-> 0, closed |-> 0])
                ELSE acc
    IN [i \in DOMAIN acc1 |->
          IF acc1[i].name = key
          THEN [acc1[i] EXCEPT !.expected = @ + l.expectedValue,
                               !.closed = IF l.status = "Won"
                                          THEN @ + l.dealValue ELSE @]
          ELSE acc1[i]]

RECURSIVE ReduceRevenue(_, _)
ReduceRevenue(ls, acc) ==
    IF ls = <<>> THEN acc ELSE ReduceRevenue(Tail(ls), revenueStep(acc, Head(ls)))

revenueByMonth(ls) == ReduceRevenue(ls, <<>>)

\* Array.prototype.sort with (a, b) => a.name.localeCompare(b.name): stable
InsertByName(sorted, row) ==
    LET k == Cardinality({i \in DOMAIN sorted :
                            localeCompare(sorted[i].name, row.name) <= 0})
    IN SubSeq(sorted, 1, k) \o <<row>> \o SubSeq(sorted, k + 1, Len(sorted))

RECURSIVE SortByName(_)
SortByName(rows) ==
    IF rows = <<>> THEN <<>>
    ELSE InsertByName(SortByName(SubSeq(rows, 1, Len(rows) - 1)), rows[Len(rows)])

computeRevenueData(ls) == SortByName(revenueByMonth(ls))

(* Team performance.  An e-mail address is a sequence of characters.       *)

SalesEmail == <<"s", "@", "x">>
SalesEmailOther == <<"s", "@", "y">>
BobEmail == <<"b", "@", "x">>
SevenEmail == <<"7", "@", "x">>

\* str.split('@')[0]: the characters before the first '@'
RECURSIVE SplitFirst(_)
SplitFirst(str) ==
    IF str = <<>> \/ Head(str) = "@" THEN <<>>
    ELSE <<Head(str)>> \o SplitFirst(Tail(str))

ownerKeyWhole(l) == l.leadOwner

ownerKey(l) == SplitFirst(l.leadOwner)

teamStep(acc, l) ==
    LET owner == ownerKey(l)
        acc1 == IF ~HasKey(acc, owner)
                THEN Append(acc, [name |-> owner, leads |-> 0, revenue |-> 0, won |-> 0])
                ELSE acc
    IN [i \in DOMAIN acc1 |->
          IF acc1[i].name = owner
          THEN [acc1[i] EXCEPT !.leads = @ + 1,
                               !.revenue = @ + l.expectedValue,
                               !.won = IF l.status = "Won" THEN @ + 1 ELSE @]
          ELSE acc1[i]]

RECURSIVE ReduceTeam(_, _)
ReduceTeam(ls, acc) ==
    IF ls = <<>> THEN acc ELSE ReduceTeam(Tail(ls), teamStep(acc, Head(ls)))

teamPerformance(ls) == ReduceTeam(ls, <<>>)

\* a property key that is a canonical array index ("0", "7", "12", ...)
IsArrayIndex(key) ==
    /\ key # <<>>
    /\ \A i \in DOMAIN key : \E d \in DOMAIN DigitChars : key[i] = DigitChars[d]
    /\ Len(key) = 1 \/ key[1] # "0"

RECURSIVE KeyNumber(_)
KeyNumber(key) ==
    IF key = <<>> THEN 0
    ELSE 10 * KeyNumber(SubSeq(key, 1, Len(key) - 1))
         + (CHOOSE d \in 0..9 : DigitChars[d + 1] = key[Len(key)])

RECURSIVE IndexValues(_, _)
IndexValues(acc, S) ==
    IF S = {} THEN <<>>
    ELSE LET m == CHOOSE i \in S :
                    \A j \in S : KeyNumber(acc[i].name) <= KeyNumber(acc[j].name)
         IN <<acc[m]>> \o IndexValues(acc, S \ {m})

\* Object.values in insertion order only
ObjectValuesInserted(acc) == acc

\* Object.values(acc): the array-index keys in ascending numeric order, then
\* the other keys in insertion order
ObjectValues(acc) ==
    IndexValues(acc, {i \in DOMAIN acc : IsArrayIndex(acc[i].name)})
        \o SelectSeq(acc, LAMBDA row : ~IsArrayIndex(row.name))

\* Array.prototype.sort with (a, b) => b.revenue - a.revenue: stable
InsertByRevenue(sorted, row) ==
    LET k == Cardinality({i \in DOMAIN sorted : row.revenue - sorted[i].revenue <= 0})
    IN SubSeq(sorted, 1, k) \o <<row>> \o SubSeq(sorted, k + 1, Len(sorted))

RECURSIVE SortByRevenue(_)
SortByRevenue(rows) ==
    IF rows = <<>> THEN <<>>
    ELSE InsertByRevenue(SortByRevenue(SubSeq(rows, 1, Len(rows) - 1)), rows[Len(rows)])

computeTeamData(ls) == SortByRevenue(ObjectValues(teamPerformance(ls)))

(* IEEE 754 double arithmetic for the win rate.  A natural number too large *)
(* for one machine integer is a little-endian sequence of base-2^15 limbs; *)
(* a positive double is [m, e], standing for m * 2^(-e) with m of at most  *)
(* 53 significant bits (2^53 itself included).                             *)

LimbBase == 32768

BigZero == <<>>

RECURSIVE BigTrim(_)
BigTrim(a) ==
    IF a = <<>> THEN <<>>
    ELSE IF a[Len(a)] = 0 THEN BigTrim(SubSeq(a, 1, Len(a) - 1))
    ELSE a

RECURSIVE BigMulSmall(_, _, _)
BigMulSmall(a, k, carry) ==
    IF a = <<>>
    THEN IF carry = 0 THEN <<>>
         ELSE <<carry % LimbBase>> \o BigMulSmall(<<>>, k, carry \div LimbBase)
    ELSE LET v == Head(a) * k + carry
         IN <<v % LimbBase>> \o BigMulSmall(Tail(a), k, v \div LimbBase)

RECURSIVE BigAdd(_, _, _)
BigAdd(a, b, carry) ==
    IF a = <<>> /\ b = <<>>
    THEN IF carry = 0 THEN <<>> ELSE <<carry>>
    ELSE LET x == IF a = <<>> THEN 0 ELSE Head(a)
             y == IF b = <<>> THEN 0 ELSE Head(b)
             v == x + y + carry
         IN <<v % LimbBase>>
              \o BigAdd(IF a = <<>> THEN <<>> ELSE Tail(a),
                        IF b = <<>> THEN <<>> ELSE Tail(b), v \div LimbBase)

\* quotient and remainder of a bignum by a machine integer 0 < k <= 2^15
RECURSIVE BigDivSmall(_, _)
BigDivSmall(a, k) ==
    IF a = <<>> THEN [q |-> <<>>, r |-> 0]
    ELSE LET hi == BigDivSmall(Tail(a), k)
             cur == hi.r * LimbBase + Head(a)
         IN [q |-> <<cur \div k>> \o hi.q, r |-> cur % k]

BigPow2(s) ==
    [i \in 1..(s \div 15 + 1) |-> IF i = s \div 15 + 1 THEN 2 ^ (s % 15) ELSE 0]

BigIsOdd(a) == a # <<>> /\ Head(a) % 2 = 1

RECURSIVE BitLenSmall(_)
BitLenSmall(n) == IF n = 0 THEN 0 ELSE 1 + BitLenSmall(n \div 2)

BigBitLen(a) ==
    LET t == BigTrim(a)
    IN IF t = <<>> THEN 0 ELSE 15 * (Len(t) - 1) + BitLenSmall(t[Len(t)])

\* floor(a / 2^s)
BigShiftRight(a, s) ==
    LET limbs == s \div 15
        rest == IF limbs >= Len(a) THEN <<>> ELSE SubSeq(a, limbs + 1, Len(a))
    IN BigDivSmall(rest, 2 ^ (s % 15)).q

RECURSIVE BigToInt(_)
BigToInt(a) == IF a = <<>> THEN 0 ELSE Head(a) + LimbBase * BigToInt(Tail(a))

\* round to nearest, ties to even: q is the truncated quotient, the discarded
\* part is r / k
RoundHalfEven(q, r, k) ==
    IF 2 * r > k \/ (2 * r = k /\ BigIsOdd(q)) THEN BigAdd(q, <<1>>, 0) ELSE q

\* the smallest d >= 0 with w * 2^d >= t
RECURSIVE NormShift(_, _)
NormShift(w, t) == IF w >= t THEN 0 ELSE 1 + NormShift(2 * w, t)

\* the double w / t for integers 0 < w <= t <= 2^15
DoubleDivide(w, t) ==
    LET d == NormShift(w, t)
        qr == BigDivSmall(BigMulSmall(BigPow2(d + 52), w, 0), t)
    IN [m |-> RoundHalfEven(qr.q, qr.r, t), e |-> d + 52]

\* the double x * k for a positive double x and an integer 0 < k <= 2^15
DoubleTimes(x, k) ==
    LET p == BigMulSmall(x.m, k, 0)
        over == BigBitLen(p) - 53
    IN IF over <= 0 THEN [m |-> p, e |-> x.e]
       ELSE LET qr == BigDivSmall(p, 2 ^ over)
            IN [m |-> RoundHalfEven(qr.q, qr.r, 2 ^ over), e |-> x.e - over]

\* the integer n for which n / 10 - y is closest to zero, the larger n when
\* two are equally close (Number.prototype.toFixed, step 10.a, one digit)
NearestTenthFloor(y) ==
    BigToInt(BigTrim(BigShiftRight(BigMulSmall(y.m, 10, 0), y.e)))

NearestTenth(y) ==
    BigToInt(BigTrim(BigShiftRight(
        BigAdd(BigMulSmall(y.m, 20, 0), BigPow2(y.e), 0), y.e + 1)))

\* ((won / total) * 100).toFixed(1): the digits, a point, one digit
toFixed1(won, total) ==
    LET n == IF won = 0 THEN 0
             ELSE NearestTenth(DoubleTimes(DoubleDivide(won, total), 100))
    IN NumberToString(n \div 10) \o <<".">> \o NumberToString(n % 10)

\* Number(str) for digits, a point and one digit; the win rate is held in
\* tenths of a percent (333 stands for 33.3)
NumberOfFixed1(str) ==
    10 * KeyNumber(SubSeq(str, 1, Len(str) - 2)) + KeyNumber(<<str[Len(str)]>>)

(* Conversion by source *)

sourceStepFromOne(acc, l) ==
    LET acc1 == IF ~HasKey(acc, l.source)
                THEN Append(acc, [name |-> l.source, total |-> 1, won |-> 0])
                ELSE acc
    IN [i \in DOMAIN acc1 |->
          IF acc1[i].name = l.source
          THEN [acc1[i] EXCEPT !.total = @ + 1,
                               !.won = IF l.status = "Won" THEN @ + 1 ELSE @]
          ELSE acc1[i]]

sourceStep(acc, l) ==
    LET acc1 == IF ~HasKey(acc, l.source)
                THEN Append(acc, [name |-> l.source, total |-> 0, won |-> 0])
                ELSE acc
    IN [i \in DOMAIN acc1 |->
          IF acc1[i].name = l.source
          THEN [acc1[i] EXCEPT !.total = @ + 1,
                               !.won = IF l.status = "Won" THEN @ + 1 ELSE @]
          ELSE acc1[i]]

RECURSIVE ReduceSource(_, _)
ReduceSource(ls, acc) ==
    IF ls = <<>> THEN acc ELSE ReduceSource(Tail(ls), sourceStep(acc, Head(ls)))

sourceStats(ls) == ReduceSource(ls, <<>>)

conversionRate(s) ==
    IF s.total > 0 THEN NumberOfFixed1(toFixed1(s.won, s.total)) ELSE 0

sourceRow(s) == [name |-> s.name, rate |-> conversionRate(s), total |-> s.total]

\* the names of the Source enum are not array indices: Object.values gives
\* the entries in insertion order
computeSourceConversionData(ls) ==
    LET stats == sourceStats(ls) IN [i \in DOMAIN stats |-> sourceRow(stats[i])]

\* fetchData resolves: setLeads(data), setLoading(false), and the page renders
\* its charts from the leads
fetchData ==
    /\ loading
    /\ leads' = fetched
    /\ loading' = FALSE
    /\ funnelData' = computeFunnelData(fetched)
    /\ revenueData' = computeRevenueData(fetched)
    /\ teamData' = computeTeamData(fetched)
    /\ sourceConversionData' = computeSourceConversionData(fetched)
    /\ UNCHANGED <<scoreVars, fetched, rateVars, storeVars, emailVars>>

NextAnalytics == fetchData

(* Funnel specification: leads of every stage *)

Date1 == [year |-> 2023, month |-> 12]
Date2 == [year |-> 2024, month |-> 2]
Date3 == [year |-> 2024, month |-> 10]

StatusOfStage(stage) ==
    IF stage = "Won" THEN "Won" ELSE IF stage = "Lost" THEN "Lost" ELSE "Open"

FunnelLeads ==
    {[stage |-> st, status |-> StatusOfStage(st), dealValue |-> 100,
      expectedValue |-> 10, createdAt |-> Date2,
      leadOwner |-> SalesEmail, source |-> "Website"] : st \in Stage}

InitFunnel ==
    /\ fetched \in SeqsUpTo(FunnelLeads, MaxFunnelLeads)
    /\ leads = <<>>
    /\ loading = TRUE
    /\ funnelData = <<>>
    /\ revenueData = <<>>
    /\ teamData = <<>>
    /\ sourceConversionData = <<>>
    /\ stat = Null
    /\ rateRow = Null
    /\ ScoringIdle
    /\ StoreIdle
    /\ EmailIdle

SpecFunnel == InitFunnel /\ [][NextAnalytics]_vars

(* Revenue specification: leads of three months, open or won *)

RevenueLeads ==
    {[stage |-> IF st = "Won" THEN "Won" ELSE "New", status |-> st,
      dealValue |-> dv, expectedValue |-> ev, createdAt |-> d,
      leadOwner |-> SalesEmail, source |-> "Website"] :
        st \in {"Open", "Won"}, dv \in {0, 100}, ev \in {0, 50},
        d \in {Date1, Date2, Date3}}

InitRevenue ==
    /\ fetched \in SeqsUpTo(RevenueLeads, MaxRevenueLeads)
    /\ leads = <<>>
    /\ loading = TRUE
    /\ funnelData = <<>>
    /\ revenueData = <<>>
    /\ teamData = <<>>
    /\ sourceConversionData = <<>>
    /\ stat = Null
    /\ rateRow = Null
    /\ ScoringIdle
    /\ StoreIdle
    /\ EmailIdle

SpecRevenue == InitRevenue /\ [][NextAnalytics]_vars

(* Team specification: four owners, two of them with the same local part   *)
(* and one whose local part is a number                                    *)

TeamLeads ==
    {[stage |-> IF st = "Won" THEN "Won" ELSE "New", status |-> st,
      dealValue |-> 200, expectedValue |-> ev, createdAt |-> Date2,
      leadOwner |-> o, source |-> "Website"] :
        st \in {"Open", "Won"}, ev \in {100, 200},
        o \in {SalesEmail, SalesEmailOther, BobEmail, SevenEmail}}

InitTeam ==
    /\ fetched \in SeqsUpTo(TeamLeads, MaxTeamLeads)
    /\ leads = <<>>
    /\ loading = TRUE
    /\ funnelData = <<>>
    /\ revenueData = <<>>
    /\ teamData = <<>>
    /\ sourceConversionData = <<>>
    /\ stat = Null
    /\ rateRow = Null
    /\ ScoringIdle
    /\ StoreIdle
    /\ EmailIdle

SpecTeam == InitTeam /\ [][NextAnalytics]_vars

(* Source specification: leads of two sources and of an unrecognized one *)

SourceLeads ==
    {[stage |-> IF st = "Open" THEN "New" ELSE st, status |-> st,
      dealValue |-> 100, expectedValue |-> 10, createdAt |-> Date2,
      leadOwner |-> SalesEmail, source |-> src] :
        st \in {"Open", "Won", "Lost"}, src \in {"Website", "Referral", Unrecognized}}

InitSource ==
    /\ fetched \in SeqsUpTo(SourceLeads, MaxSourceLeads)
    /\ leads = <<>>
    /\ loading = TRUE
    /\ funnelData = <<>>
    /\ revenueData = <<>>
    /\ teamData = <<>>
    /\ sourceConversionData = <<>>
    /\ stat = Null
    /\ rateRow = Null
    /\ ScoringIdle
    /\ StoreIdle
    /\ EmailIdle

SpecSource == InitSource /\ [][NextAnalytics]_vars

(* Rate specification: the row mapper applied to one sourceStats entry of  *)
(* up to MaxRateTotal leads                                                *)

InitRate ==
    /\ stat \in {[name |-> "Website", total |-> t, won |-> w] :
                    t \in 1..MaxRateTotal, w \in 0..MaxRateTotal}
    /\ stat.won <= stat.total
    /\ rateRow = Null
    /\ fetched = <<>>
    /\ leads = <<>>
    /\ loading = TRUE
    /\ funnelData = <<>>
    /\ revenueData = <<>>
    /\ teamData = <<>>
    /\ sourceConversionData = <<>>
    /\ ScoringIdle
    /\ StoreIdle
    /\ EmailIdle

ApplySourceRow ==
    /\ stat # Null
    /\ rateRow = Null
    /\ rateRow' = sourceRow(stat)
    /\ UNCHANGED <<scoreVars, analyticsVars, stat, storeVars, emailVars>>

NextRate == ApplySourceRow

SpecRate == InitRate /\ [][NextRate]_vars

----------------------------------------------------------------------------
(* The lead store: the Apps Script backend (Code.gs), the service calls of *)
(* services/storageService.ts, and the handlers of LeadList and LeadDetail *)
(* that write to it.                                                       *)
(*                                                                         *)
(* A cell that can hold text is [str |-> characters]; an ISO timestamp is  *)
(* the text of its instant.  A Number that can share a cell with '' is the *)
(* double [m, e] with the least e, zero being [<<>>, 0].  leadScore and    *)
(* probability are integers; ids and activity times are instants of the    *)
(* clock.  Text the program builds from pieces is the sequence of the      *)
(* pieces.  The columns email, phone and nextActionType are text the       *)
(* handlers below copy unchanged and are left out.                         *)

EmptyString == [str |-> <<>>]

toISOString(t) == [str |-> <<t>>]

DoubleZero == [m |-> <<>>, e |-> 0]

RECURSIVE BigOfInt(_)
BigOfInt(n) == IF n = 0 THEN <<>> ELSE <<n % LimbBase>> \o BigOfInt(n \div LimbBase)

NumberOfInt(n) == [m |-> BigOfInt(n), e |-> 0]

RECURSIVE TrailingZerosSmall(_)
TrailingZerosSmall(n) == IF n % 2 = 1 THEN 0 ELSE 1 + TrailingZerosSmall(n \div 2)

\* the number of zero bits below the lowest one bit of a # 0
RECURSIVE TrailingZeros(_)
TrailingZeros(a) ==
    IF Head(a) = 0 THEN 15 + TrailingZeros(Tail(a)) ELSE TrailingZerosSmall(Head(a))

\* the representation of a double with the least exponent
Canon(x) ==
    IF BigTrim(x.m) = <<>> THEN DoubleZero
    ELSE LET s == Min(TrailingZeros(x.m), x.e)
         IN [m |-> BigTrim(BigShiftRight(x.m, s)), e |-> x.e - s]

\* ToNumber of a cell that holds a Number or '': '' is 0
ToNumber(v) == IF v = EmptyString THEN DoubleZero ELSE v

\* w / t for integers 0 <= w <= t
Quotient(w, t) == IF w = 0 THEN DoubleZero ELSE Canon(DoubleDivide(w, t))

\* a * x for an integer-valued a of at most 2^15 and a double x
Product(a, x) ==
    IF a = DoubleZero \/ x = DoubleZero THEN DoubleZero
    ELSE Canon(DoubleTimes(x, BigToInt(a.m)))

AdminEmail == <<"a", "@", "x">>

Users == {[email |-> AdminEmail, role |-> "Admin"],
          [email |-> SalesEmail, role |-> "Sales"]}

UserEmails == {u.email : u \in Users}

(* Code.gs *)

LeadHeaders ==
    {"id", "leadName", "companyName", "industry", "source", "budgetRange", "stage",
     "status", "leadOwner", "leadScore",
     "probability", "dealValue", "expectedValue", "nextActionDateTime",
     "lastContactedAt", "createdAt", "notes", "suggestedEmailSubject",
     "suggestedEmailBody"}

ActivityHeaders == {"id", "leadId", "type", "outcome", "dateTime", "createdBy"}

\* data[header] || '': '' for a missing property, for '' and for 0
OrEmpty(data, header) ==
    IF header \notin DOMAIN data THEN EmptyString
    ELSE IF header \in {"leadScore", "probability"}
         THEN (IF data[header] = 0 THEN EmptyString ELSE data[header])
    ELSE IF header \in {"dealValue", "expectedValue"}
         THEN (IF data[header] = DoubleZero THEN EmptyString ELSE data[header])
    ELSE data[header]

createLead(rows, leadData) ==
    Append(rows, [header \in LeadHeaders |-> OrEmpty(leadData, header)])

\* data.findIndex(row => row[idIndex] == leadData.id), 0 for -1
rowIndex(rows, id) ==
    IF \E i \in DOMAIN rows : rows[i].id = id
    THEN CHOOSE i \in DOMAIN rows :
            /\ rows[i].id = id
            /\ \A j \in 1..(i - 1) : rows[j].id # id
    ELSE 0

updateLead(rows, leadData) ==
    LET i == rowIndex(rows, leadData.id)
    IN [rows EXCEPT ![i] =
            [header \in LeadHeaders |->
                IF header \in DOMAIN leadData THEN leadData[header] ELSE rows[i][header]]]

addActivityLatestOnly(rows, activityData) ==
    <<[header \in ActivityHeaders |-> OrEmpty(activityData, header)]>>

addActivity(rows, activityData) ==
    Append(rows, [header \in ActivityHeaders |-> OrEmpty(activityData, header)])

\* leads.find(l => l.id == id), Null for undefined
getLeadById(rows, id) ==
    IF rowIndex(rows, id) = 0 THEN Null ELSE rows[rowIndex(rows, id)]

(* services/storageService.ts *)

RECURSIVE InsertByDateTime(_, _)
InsertByDateTime(sorted, a) ==
    IF sorted = <<>> THEN <<a>>
    ELSE IF a.dateTime - Head(sorted).dateTime > 0
         THEN <<a>> \o sorted
         ELSE <<Head(sorted)>> \o InsertByDateTime(Tail(sorted), a)

RECURSIVE SortByDateTime(_)
SortByDateTime(rows) ==
    IF rows = <<>> THEN <<>>
    ELSE InsertByDateTime(SortByDateTime(SubSeq(rows, 1, Len(rows) - 1)),
                          rows[Len(rows)])

getActivities(rows, leadId) ==
    SortByDateTime(SelectSeq(rows, LAMBDA a : a.leadId = leadId))

(* pages/LeadList.tsx *)

\* what the form holds on submit: its defaults with a name typed in, or a
\* deal value typed in as well and the source and budget range that score
\* no points selected
FormInputs ==
    {[dealValue |-> 0, source |-> "Website", budgetRange |-> "1-5L"],
     [dealValue |-> 90, source |-> "LinkedIn", budgetRange |-> "<1L"]}

\* the form holds a name; company and industry are left blank
leadToCreate(newLead, owner, t) ==
    [id |-> t, leadName |-> [str |-> <<"Asha">>],
     companyName |-> [str |-> <<"Unknown">>], industry |-> [str |-> <<"Other">>],
     source |-> newLead.source, budgetRange |-> newLead.budgetRange, stage |-> "New",
     status |-> "Open", leadOwner |-> owner, leadScore |-> 10, probability |-> 10,
     dealValue |-> NumberOfInt(newLead.dealValue),
     expectedValue |-> Product(NumberOfInt(newLead.dealValue), Quotient(1, 10)),
     createdAt |-> toISOString(t), notes |-> EmptyString]

\* LeadList is on screen when LeadDetail holds no lead; postOk: the POST
\* reaches the backend and is answered
handleCreateLead(newLead, owner, postOk) ==
    /\ user # Null
    /\ lead = Null
    /\ ~isSubmitting
    /\ now < MaxTime
    /\ owner \in (IF user.role = "Admin" THEN UserEmails ELSE {user.email})
    /\ now' = now + 1
    /\ sheetLeads' = IF postOk
                     THEN createLead(sheetLeads, leadToCreate(newLead, owner, now + 1))
                     ELSE sheetLeads
    /\ isSubmitting' = ~postOk
    /\ UNCHANGED <<scoreVars, analyticsVars, rateVars, user, sheetActivities,
                   isSavingActivity, targetValue, inputLead, emailVars>>

(* LeadDetail, components/Layout.tsx *)

\* mounting LeadDetail on /leads/:id runs fetchData once; leadOk, actsOk:
\* the GET is answered
fetchLeadDetail(id, leadOk, actsOk) ==
    /\ user # Null
    /\ rowIndex(sheetLeads, id) # 0
    /\ LET leadData == IF leadOk THEN getLeadById(sheetLeads, id) ELSE Null
           shown == /\ leadData # Null
                    /\ (user.role = "Admin" \/ leadData.leadOwner = user.email)
       IN /\ lead' = IF shown THEN leadData ELSE Null
          /\ activities' = IF shown /\ actsOk
                           THEN getActivities(sheetActivities, id) ELSE <<>>
    /\ isSavingActivity' = FALSE
    /\ isSubmitting' = FALSE
    /\ targetValue' = ""
    /\ inputLead' = Null
    /\ isGeneratingEmail' = FALSE
    /\ aiEmail' = Null
    /\ UNCHANGED <<score, scored, analyticsVars, rateVars, user, now, sheetLeads,
                   sheetActivities, apiKey, response>>

\* leaving LeadDetail for the list unmounts it
navigateLeads ==
    /\ lead # Null
    /\ lead' = Null
    /\ activities' = <<>>
    /\ isSavingActivity' = FALSE
    /\ targetValue' = ""
    /\ inputLead' = Null
    /\ isGeneratingEmail' = FALSE
    /\ aiEmail' = Null
    /\ UNCHANGED <<score, scored, analyticsVars, rateVars, user, now, sheetLeads,
                   sheetActivities, isSubmitting, apiKey, response>>

newActivityOf(l, outcome, t) ==
    [id |-> t, leadId |-> l.id, type |-> "Call", outcome |-> outcome,
     dateTime |-> t, createdBy |-> user.email]

updatedLeadOfActivityLessTen(l, updatedActivities, t) ==
    [l EXCEPT !.leadScore = calculateLeadScore(l, updatedActivities) - 10,
              !.lastContactedAt = toISOString(t)]

updatedLeadOfActivity(l, updatedActivities, t) ==
    [l EXCEPT !.leadScore = calculateLeadScore(l, updatedActivities),
              !.lastContactedAt = toISOString(t)]

\* addOk, updateOk: the two POSTs are answered; a POST that is not, or that
\* the backend answers with an error, throws and ends the handler there
handleAddActivity(outcome, addOk, updateOk) ==
    /\ lead # Null
    /\ user # Null
    /\ ~isSavingActivity
    /\ now < MaxTime
    /\ LET activity == newActivityOf(lead, outcome, now + 1)
           updatedActivities == <<activity>> \o activities
           updated == updatedLeadOfActivity(lead, updatedActivities, now + 1)
           saved == addOk /\ updateOk /\ rowIndex(sheetLeads, lead.id) # 0
       IN /\ now' = now + 1
          /\ sheetActivities' = IF addOk THEN addActivity(sheetActivities, activity)
                                ELSE sheetActivities
          /\ sheetLeads' = IF saved THEN updateLead(sheetLeads, updated) ELSE sheetLeads
          /\ activities' = IF saved THEN updatedActivities ELSE activities
          /\ lead' = IF saved THEN updated ELSE lead
          /\ isSavingActivity' = ~saved
    /\ UNCHANGED <<score, scored, analyticsVars, rateVars, user, isSubmitting,
                   targetValue, inputLead, emailVars>>

canChangeStageOpenOnly(l) == l # Null /\ l.status = "Open"

canChangeStage(l) == l # Null

newProbSwapped(l, newStage) ==
    IF newStage = "Qualified" THEN 70
    ELSE IF newStage = "Proposal" THEN 40
    ELSE IF newStage = "Lost" THEN 0
    ELSE IF newStage = "Won" THEN 100
    ELSE l.probability

newProbBumped(l, newStage) ==
    IF newStage = "Qualified" THEN 40
    ELSE IF newStage = "Proposal" THEN 70
    ELSE IF newStage = "Lost" THEN 0
    ELSE IF newStage = "Won" THEN 100
    ELSE Min(l.probability + 10, 100)

newProbKeptOnLost(l, newStage) ==
    IF newStage = "Qualified" THEN 40
    ELSE IF newStage = "Proposal" THEN 70
    ELSE IF newStage = "Won" THEN 100
    ELSE l.probability

newProb(l, newStage) ==
    IF newStage = "Qualified" THEN 40
    ELSE IF newStage = "Proposal" THEN 70
    ELSE IF newStage = "Lost" THEN 0
    ELSE IF newStage = "Won" THEN 100
    ELSE l.probability

newStatusWonOnly(newStage) == IF newStage = "Won" THEN "Won" ELSE "Open"

newStatus(newStage) ==
    IF newStage = "Won" THEN "Won" ELSE IF newStage = "Lost" THEN "Lost" ELSE "Open"

updatedLeadOfStage(l, newStage) ==
    LET prob == newProb(l, newStage)
    IN [l EXCEPT !.stage = newStage,
                 !.status = newStatus(newStage),
                 !.probability = prob,
                 !.expectedValue = Product(ToNumber(l.dealValue), Quotient(prob, 100))]

leadAfterSpreadAssigned(l, newStage) == updatedLeadOfStage(l, newStage)

\* the object the handler read as lead, after { ...lead, stage: ... } was built
leadAfterSpread(l, newStage) == l

\* the stage select is rendered when there is a lead; the handler returns
\* at once when it may not change the stage
handleStageChange(newStage, postOk) ==
    /\ lead # Null
    /\ now < MaxTime
    /\ now' = now + 1
    /\ targetValue' = newStage
    /\ IF canChangeStage(lead)
       THEN /\ lead' = updatedLeadOfStage(lead, newStage)
            /\ inputLead' = leadAfterSpread(lead, newStage)
            /\ sheetLeads' = IF postOk /\ rowIndex(sheetLeads, lead.id) # 0
                             THEN updateLead(sheetLeads, lead')
                             ELSE sheetLeads
       ELSE UNCHANGED <<lead, inputLead, sheetLeads>>
    /\ UNCHANGED <<activities, score, scored, analyticsVars, rateVars, user,
                   sheetActivities, isSubmitting, isSavingActivity, emailVars>>

updatedLeadOfOwner(l, newOwnerEmail) == [l EXCEPT !.leadOwner = newOwnerEmail]

\* the Admin Actions card is rendered for an Admin only
handleAssignLead(newOwnerEmail, postOk) ==
    /\ lead # Null
    /\ user # Null
    /\ user.role = "Admin"
    /\ now < MaxTime
    /\ now' = now + 1
    /\ lead' = updatedLeadOfOwner(lead, newOwnerEmail)
    /\ sheetLeads' = IF postOk /\ rowIndex(sheetLeads, lead.id) # 0
                     THEN updateLead(sheetLeads, lead')
                     ELSE sheetLeads
    /\ UNCHANGED <<activities, score, scored, analyticsVars, rateVars, user,
                   sheetActivities, isSubmitting, isSavingActivity, targetValue,
                   inputLead, emailVars>>

(* services/geminiService.ts *)

ApiKeys == {"", "key"}

\* the GoogleGenAI client, Null without a key
getClient(key) == IF key = "" THEN Null ELSE [apiKey |-> key]

\* the email resolved when there is no client
templatedEmail(l) ==
    [subject |-> [str |-> <<"Follow up regarding ">> \o l.companyName.str],
     body |-> [str |-> <<"Hi ">> \o l.leadName.str
                       \o <<",\n\nI hope you're having a great day. I wanted to follow up on our last conversation regarding solutions for ">>
                       \o l.industry.str
                       \o <<". \n\nGiven your interest in our ">>
                       \o <<l.budgetRange>>
                       \o <<" tier, I believe we can offer significant value.\n\nAre you free for a quick chat this week?\n\nBest,\n[Your Name]">>]]

\* the email returned from the catch block
errorEmail ==
    [subject |-> [str |-> <<"Error generating email">>],
     body |-> [str |-> <<"There was an error communicating with the AI service. Please try again later.">>]]

\* an email the service drafts
DraftedEmail == [subject |-> [str |-> <<"A quick chat?">>], body |-> [str |-> <<"Hello">>]]

\* what generateContent can do: reject, resolve without text, resolve with
\* text that JSON.parse rejects, resolve with the JSON of an email
ServiceReplies ==
    {[rejected |-> TRUE, text |-> Null],
     [rejected |-> FALSE, text |-> Null],
     [rejected |-> FALSE, text |-> [parsed |-> Null]],
     [rejected |-> FALSE, text |-> [parsed |-> DraftedEmail]]}

\* reply: what generateContent does when it is called
generateFollowUpEmail(l, lastActivity, key, reply) ==
    IF getClient(key) = Null THEN templatedEmail(l)
    ELSE IF reply.rejected THEN errorEmail
    ELSE IF reply.text = Null THEN errorEmail
    ELSE IF reply.text.parsed = Null THEN errorEmail
    ELSE reply.text.parsed

(* LeadDetail, components/Layout.tsx *)

updatedLeadOfEmail(l, email) ==
    [l EXCEPT !.suggestedEmailSubject = email.subject,
              !.suggestedEmailBody = email.body]

\* the button is rendered when there is a lead and disabled while an email
\* is generated; a failed POST is caught, and the flag is reset either way
handleGenerateEmail(reply, postOk) ==
    /\ lead # Null
    /\ ~isGeneratingEmail
    /\ now < MaxTime
    /\ now' = now + 1
    /\ LET lastActivity == IF Len(activities) > 0 THEN activities[1] ELSE Null
       IN aiEmail' = generateFollowUpEmail(lead, lastActivity, apiKey, reply)
    /\ response' = IF getClient(apiKey) = Null THEN Null ELSE reply
    /\ lead' = updatedLeadOfEmail(lead, aiEmail')
    /\ sheetLeads' = IF postOk /\ rowIndex(sheetLeads, lead.id) # 0
                     THEN updateLead(sheetLeads, lead')
                     ELSE sheetLeads
    /\ isGeneratingEmail' = FALSE
    /\ UNCHANGED <<activities, score, scored, analyticsVars, rateVars, user,
                   sheetActivities, isSubmitting, isSavingActivity, targetValue,
                   inputLead, apiKey>>

(* Store specification: a signed-in user and empty sheets *)

Init ==
    /\ user \in Users
    /\ now = 0
    /\ sheetLeads = <<>>
    /\ sheetActivities = <<>>
    /\ isSubmitting = FALSE
    /\ isSavingActivity = FALSE
    /\ targetValue = ""
    /\ inputLead = Null
    /\ lead = Null
    /\ activities = <<>>
    /\ score = 0
    /\ scored = FALSE
    /\ AnalyticsIdle
    /\ EmailIdle

Next ==
    \/ \E newLead \in FormInputs, owner \in UserEmails, postOk \in BOOLEAN :
          handleCreateLead(newLead, owner, postOk)
    \/ \E i \in DOMAIN sheetLeads, leadOk \in BOOLEAN, actsOk \in BOOLEAN :
          fetchLeadDetail(sheetLeads[i].id, leadOk, actsOk)
    \/ navigateLeads
    \/ \E outcome \in {"Interested", "Not Interested"}, addOk \in BOOLEAN,
          updateOk \in BOOLEAN :
          handleAddActivity(outcome, addOk, updateOk)
    \/ \E newStage \in Stage, postOk \in BOOLEAN : handleStageChange(newStage, postOk)
    \/ \E newOwnerEmail \in UserEmails, postOk \in BOOLEAN :
          handleAssignLead(newOwnerEmail, postOk)

Spec == Init /\ [][Next]_vars

(* Stage specification: LeadDetail shows a lead of any stage, status,      *)
(* probability and deal value, and the stage select is used                *)

StageLeads ==
    {[id |-> 1, leadName |-> [str |-> <<"Asha">>],
      companyName |-> [str |-> <<"Unknown">>], industry |-> [str |-> <<"Other">>],
      source |-> "Website", budgetRange |-> "1-5L", stage |-> st,
      status |-> status, leadOwner |-> SalesEmail, leadScore |-> 10,
      probability |-> prob, dealValue |-> deal, expectedValue |-> ev,
      nextActionDateTime |-> EmptyString, lastContactedAt |-> EmptyString,
      createdAt |-> toISOString(1), notes |-> EmptyString,
      suggestedEmailSubject |-> EmptyString, suggestedEmailBody |-> EmptyString] :
        st \in Stage, status \in Status, prob \in {0, 25, 70, 100},
        deal \in {EmptyString, NumberOfInt(90), NumberOfInt(1000)},
        ev \in {NumberOfInt(500)}}

InitStage ==
    /\ user \in {u \in Users : u.role = "Admin"}
    /\ now = 0
    /\ lead \in StageLeads
    /\ sheetLeads = <<lead>>
    /\ sheetActivities = <<>>
    /\ isSubmitting = FALSE
    /\ isSavingActivity = FALSE
    /\ targetValue = ""
    /\ inputLead = Null
    /\ activities = <<>>
    /\ score = 0
    /\ scored = FALSE
    /\ AnalyticsIdle
    /\ EmailIdle

NextStage ==
    \E newStage \in Stage, postOk \in BOOLEAN : handleStageChange(newStage, postOk)

SpecStage == InitStage /\ [][NextStage]_vars

(* Email specification: LeadDetail shows a lead with any company, name,    *)
(* industry and budget range, with or without a logged activity, and the   *)
(* generate button is used                                                 *)

EmailLeads ==
    {[id |-> 1, leadName |-> [str |-> name], companyName |-> [str |-> company],
      industry |-> [str |-> industry], source |-> "Website", budgetRange |-> b,
      stage |-> "New", status |-> "Open", leadOwner |-> SalesEmail,
      leadScore |-> 10, probability |-> 10, dealValue |-> EmptyString,
      expectedValue |-> EmptyString,
      nextActionDateTime |-> EmptyString, lastContactedAt |-> EmptyString,
      createdAt |-> toISOString(1), notes |-> EmptyString,
      suggestedEmailSubject |-> EmptyString, suggestedEmailBody |-> EmptyString] :
        name \in {<<"Asha">>, <<"Ravi">>}, company \in {<<"Unknown">>, <<"Acme">>},
        industry \in {<<"Other">>, <<"Retail">>}, b \in BudgetRange}

InitEmail ==
    /\ user \in {u \in Users : u.role = "Sales"}
    /\ now = 0
    /\ lead \in EmailLeads
    /\ sheetLeads = <<lead>>
    /\ sheetActivities \in {<<>>, <<[id |-> 1, leadId |-> 1, type |-> "Call",
                                     outcome |-> "Interested", dateTime |-> 1,
                                     createdBy |-> SalesEmail]>>}
    /\ isSubmitting = FALSE
    /\ isSavingActivity = FALSE
    /\ targetValue = ""
    /\ inputLead = Null
    /\ activities = getActivities(sheetActivities, 1)
    /\ score = 0
    /\ scored = FALSE
    /\ AnalyticsIdle
    /\ apiKey \in ApiKeys
    /\ isGeneratingEmail = FALSE
    /\ aiEmail = Null
    /\ response = Null

NextEmail ==
    \E reply \in ServiceReplies, postOk \in BOOLEAN : handleGenerateEmail(reply, postOk)

SpecEmail == InitEmail /\ [][NextEmail]_vars

(* Sessions specification: LeadDetail shows a lead that was created and    *)
(* had activities logged before the page loaded, and a second session of   *)
(* the same user works on the same lead.  Past instants are negative.      *)

PastLeadId == 0 - (MaxPast + 1)

\* the rows handleAddActivity stored for the outcomes outs, the last at -1
PastActivities(outs) ==
    [k \in 1..Len(outs) |->
        [id |-> k - Len(outs) - 1, leadId |-> PastLeadId, type |-> "Call",
         outcome |-> outs[k], dateTime |-> k - Len(outs) - 1,
         createdBy |-> SalesEmail]]

\* the row of the lead after handleCreateLead and those handleAddActivity runs
PastLead(newLead, outs) ==
    LET created == createLead(<<>>, leadToCreate(newLead, SalesEmail, PastLeadId))[1]
    IN IF outs = <<>> THEN created
       ELSE [created EXCEPT
                !.leadScore = calculateLeadScore(created,
                                  getActivities(PastActivities(outs), PastLeadId)),
                !.lastContactedAt = toISOString(0 - 1)]

SessionOutcomes == {"Interested", "No Response"}

SessionStages == {"Contacted", "Proposal"}

InitSessions ==
    /\ user \in {u \in Users : u.role = "Sales"}
    /\ now = 0
    /\ \E newLead \in FormInputs, outs \in SeqsUpTo(SessionOutcomes, MaxPast) :
          /\ sheetLeads = <<PastLead(newLead, outs)>>
          /\ sheetActivities = PastActivities(outs)
    /\ lead = getLeadById(sheetLeads, PastLeadId)
    /\ activities = getActivities(sheetActivities, PastLeadId)
    /\ isSubmitting = FALSE
    /\ isSavingActivity = FALSE
    /\ targetValue = ""
    /\ inputLead = Null
    /\ score = 0
    /\ scored = FALSE
    /\ AnalyticsIdle
    /\ EmailIdle

\* the second session opens the lead (fetchData) and logs an activity
\* (handleAddActivity); its GETs and POSTs are answered
otherSessionAddActivity(outcome) ==
    /\ lead # Null
    /\ now < MaxTime
    /\ now' = now + 1
    /\ LET l == getLeadById(sheetLeads, lead.id)
           loaded == getActivities(sheetActivities, lead.id)
           activity == newActivityOf(l, outcome, now + 1)
       IN /\ sheetActivities' = addActivity(sheetActivities, activity)
          /\ sheetLeads' = updateLead(sheetLeads,
                               updatedLeadOfActivity(l, <<activity>> \o loaded, now + 1))
    /\ UNCHANGED <<scoreVars, analyticsVars, rateVars, user, isSubmitting,
                   isSavingActivity, targetValue, inputLead, emailVars>>

\* the second session opens the lead (fetchData) and changes its stage
\* (handleStageChange)
otherSessionStageChange(newStage) ==
    /\ lead # Null
    /\ now < MaxTime
    /\ now' = now + 1
    /\ sheetLeads' = updateLead(sheetLeads,
                         updatedLeadOfStage(getLeadById(sheetLeads, lead.id), newStage))
    /\ UNCHANGED <<scoreVars, analyticsVars, rateVars, user, sheetActivities,
                   isSubmitting, isSavingActivity, targetValue, inputLead, emailVars>>

NextSessions ==
    \/ \E outcome \in SessionOutcomes : otherSessionAddActivity(outcome)
    \/ \E newStage \in SessionStages : otherSessionStageChange(newStage)
    \/ \E outcome \in SessionOutcomes : handleAddActivity(outcome, TRUE, TRUE)
    \/ \E newStage \in SessionStages : handleStageChange(newStage, TRUE)

SpecSessions == InitSessions /\ [][NextSessions]_vars

----------------------------------------------------------------------------
(* The point tables of the scoring rules, as the specification states them *)

SourcePoints(s) ==
    CASE s = "Referral" -> 20
      [] s = "Website" -> 10
      [] s = "Cold Call" -> 5
      [] OTHER -> 0

BudgetPoints(b) ==
    CASE b = ">10L" -> 30
      [] b = "5-10L" -> 20
      [] b = "1-5L" -> 10
      [] OTHER -> 0

OutcomePoints(o) ==
    CASE o = "Interested" -> 20
      [] o = "Follow-up Required" -> 10
      [] OTHER -> 0

EngagementPoints(h) == IF h = <<>> THEN 0 ELSE OutcomePoints(h[1].outcome)

VolumePoints(h) == IF Len(h) > 3 THEN 10 ELSE 0

\* h with every activity after the first replaced by a fixed one
SameFirst(h) ==
    [i \in DOMAIN h |-> IF i = 1 THEN h[i] ELSE [outcome |-> "No Response"]]

\* h cut down to its most recent activity
FirstOnly(h) == IF h = <<>> THEN <<>> ELSE <<h[1]>>

\* C1: the score returned for any lead and any history (empty histories and
\* unrecognized enum values included) is an integer between 0 and 100.
C1_ScoreInRange == scored => score \in 0..100

C1_Witness ==
    /\ scored
    /\ lead.source = Unrecognized
    /\ lead.budgetRange = Unrecognized
    /\ activities = <<>>
    /\ score = 0

\* C2: the score is min(100, source + budget + engagement + volume) with the
\* points of the tables; a Referral, >10L lead with 4 activities, the most
\* recent one Interested, scores 80.
C2_ScoreFormula ==
    scored =>
        /\ score = Min(100, SourcePoints(lead.source) + BudgetPoints(lead.budgetRange)
                            + EngagementPoints(activities) + VolumePoints(activities))
        /\ (/\ lead.source = "Referral"
            /\ lead.budgetRange = ">10L"
            /\ Len(activities) = 4
            /\ activities[1].outcome = "Interested") => score = 80

C2_Witness ==
    /\ scored
    /\ lead.source = "Referral"
    /\ lead.budgetRange = ">10L"
    /\ Len(activities) = 4
    /\ activities[1].outcome = "Interested"
    /\ score = 80

\* C3: with an empty history the score is the source contribution plus the
\* budget contribution and nothing else.
C3_EmptyHistory ==
    (scored /\ activities = <<>>) =>
        score = SourcePoints(lead.source) + BudgetPoints(lead.budgetRange)

C3_Witness ==
    /\ scored
    /\ activities = <<>>
    /\ lead.source = "Referral"
    /\ lead.budgetRange = "5-10L"
    /\ score = 40

\* C4: the score does not depend on the outcomes of the activities after the
\* first: it equals the score of the history of the same length with the same
\* first activity and every later activity replaced.
C4_FirstActivityOnly ==
    scored => score = calculateLeadScore(lead, SameFirst(activities))

C4_Witness ==
    /\ scored
    /\ Len(activities) >= 2
    /\ activities[1].outcome = "No Response"
    /\ activities[Len(activities)].outcome = "Interested"
    /\ SameFirst(activities) # activities

\* C5: the volume bonus is a flat 10, given exactly to the histories of more
\* than 3 activities: the score of a history exceeds the score of its most
\* recent activity alone by 10 when it has 4 or more activities, by 0 otherwise.
C5_VolumeBonus ==
    scored =>
        score - calculateLeadScore(lead, FirstOnly(activities))
            = IF Len(activities) >= 4 THEN 10 ELSE 0

C5_Witness ==
    /\ scored
    /\ Len(activities) = 5
    /\ score = calculateLeadScore(lead, FirstOnly(activities)) + 10

\* C6: an unrecognized source, budget range or most recent outcome contributes
\* 0: the score is then the sum of the contributions of the other fields, and
\* a score is always returned.
C6_UnrecognizedIsZero ==
    scored =>
        /\ score \in Nat
        /\ lead.source \notin Source =>
             score = BudgetPoints(lead.budgetRange)
                     + EngagementPoints(activities) + VolumePoints(activities)
        /\ lead.budgetRange \notin BudgetRange =>
             score = SourcePoints(lead.source)
                     + EngagementPoints(activities) + VolumePoints(activities)
        /\ (activities # <<>> /\ activities[1].outcome \notin ActivityOutcome) =>
             score = SourcePoints(lead.source) + BudgetPoints(lead.budgetRange)
                     + VolumePoints(activities)

C6_Witness ==
    /\ scored
    /\ lead.source = Unrecognized
    /\ lead.budgetRange = ">10L"
    /\ Len(activities) = 4
    /\ activities[1].outcome = Unrecognized
    /\ score = 40

----------------------------------------------------------------------------
(* The aggregation views, as the specification states them *)

ForwardStages == <<"New", "Contacted", "Qualified", "Proposal", "Won">>

LeadsInStage(ls, st) == Cardinality({j \in DOMAIN ls : ls[j].stage = st})

FunnelSum ==
    LET F[i \in 0..Len(funnelData)] ==
            IF i = 0 THEN 0 ELSE F[i - 1] + funnelData[i].value
    IN F[Len(funnelData)]

\* the year-month key of the three months of the revenue model
PeriodKey(d) ==
    CASE d = Date1 -> <<"2", "0", "2", "3", "-", "1", "2">>
      [] d = Date2 -> <<"2", "0", "2", "4", "-", "0", "2">>
      [] d = Date3 -> <<"2", "0", "2", "4", "-", "1", "0">>

Periods(ls) == {ls[j].createdAt : j \in DOMAIN ls}

Earlier(d1, d2) == d1.year * 12 + d1.month < d2.year * 12 + d2.month

ExpectedTotal(ls, d) ==
    LET F[i \in 0..Len(ls)] ==
            IF i = 0 THEN 0
            ELSE F[i - 1] + (IF ls[i].createdAt = d THEN ls[i].expectedValue ELSE 0)
    IN F[Len(ls)]

ClosedTotal(ls, d) ==
    LET F[i \in 0..Len(ls)] ==
            IF i = 0 THEN 0
            ELSE F[i - 1] + (IF ls[i].createdAt = d /\ ls[i].status = "Won"
                             THEN ls[i].dealValue ELSE 0)
    IN F[Len(ls)]

RowsOf(d) == {i \in DOMAIN revenueData : revenueData[i].name = PeriodKey(d)}

\* C7: the funnel has exactly the 5 rows New, Contacted, Qualified, Proposal,
\* Won in that order, each counting the leads currently in its stage (0 when
\* there are none), and no row for Lost.
C7_FunnelShape ==
    ~loading =>
        /\ Len(funnelData) = 5
        /\ \A i \in 1..5 :
              /\ funnelData[i].name = ForwardStages[i]
              /\ funnelData[i].value = LeadsInStage(leads, ForwardStages[i])
        /\ \A i \in DOMAIN funnelData : funnelData[i].name # "Lost"

C7_Witness ==
    /\ ~loading
    /\ Len(leads) = 3
    /\ LeadsInStage(leads, "Lost") = 1
    /\ LeadsInStage(leads, "Won") = 2
    /\ Len(funnelData) = 5
    /\ funnelData[1].value = 0
    /\ funnelData[5].value = 2

\* C8: the funnel counts add up to at most the number of leads, and to exactly
\* the number of leads when no lead is Lost.
C8_FunnelSum ==
    ~loading =>
        /\ FunnelSum <= Len(leads)
        /\ LeadsInStage(leads, "Lost") = 0 => FunnelSum = Len(leads)

C8_Witness ==
    /\ ~loading
    /\ Len(leads) = 4
    /\ LeadsInStage(leads, "Lost") = 1
    /\ FunnelSum = 3

C10_RevenueRows ==
    ~loading =>
        /\ Len(revenueData) = Cardinality(Periods(leads))
        /\ \A d \in Periods(leads) : Cardinality(RowsOf(d)) = 1
        /\ \A d1, d2 \in Periods(leads) :
              Earlier(d1, d2) => \A i \in RowsOf(d1), j \in RowsOf(d2) : i < j
        /\ \A i, j \in DOMAIN revenueData :
              i < j => localeCompare(revenueData[i].name, revenueData[j].name) < 0
        /\ \A d \in Periods(leads) :
              (\A k \in DOMAIN leads :
                  leads[k].createdAt = d => leads[k].status # "Won")
              => \E i \in RowsOf(d) : revenueData[i].closed = 0

C10_Witness ==
    /\ ~loading
    /\ Len(leads) = 3
    /\ leads[1].createdAt = Date3 /\ leads[1].status = "Open" /\ leads[1].dealValue = 100
    /\ leads[2].createdAt = Date2 /\ leads[2].status = "Won"
    /\ leads[3].createdAt = Date1
    /\ Len(revenueData) = 3
    /\ revenueData[1].name = PeriodKey(Date1)
    /\ revenueData[3].name = PeriodKey(Date3)
    /\ revenueData[3].closed = 0

Owners(ls) == {ls[j].leadOwner : j \in DOMAIN ls}

LeadsOf(ls, o) == {j \in DOMAIN ls : ls[j].leadOwner = o}

PipelineValue(ls, o) ==
    LET F[i \in 0..Len(ls)] ==
            IF i = 0 THEN 0
            ELSE F[i - 1] + (IF ls[i].leadOwner = o THEN ls[i].expectedValue ELSE 0)
    IN F[Len(ls)]

WonOf(ls, o) == Cardinality({j \in LeadsOf(ls, o) : ls[j].status = "Won"})

\* the position of the first lead counted in the row called name
FirstSeen(ls, name) ==
    CHOOSE j \in DOMAIN ls :
        /\ SplitFirst(ls[j].leadOwner) = name
        /\ \A k \in 1..(j - 1) : SplitFirst(ls[k].leadOwner) # name

\* C11: the leaderboard has exactly one row per distinct leadOwner, counting
\* the leads of that owner and no others: leadCount is their number,
\* pipelineValue the sum of their expectedValue, wonCount the number of them
\* whose status is Won.
C11_OneRowPerOwner ==
    ~loading =>
        /\ Len(teamData) = Cardinality(Owners(leads))
        /\ \A o \in Owners(leads) : \E i \in DOMAIN teamData :
              /\ teamData[i].name = SplitFirst(o)
              /\ teamData[i].leads = Cardinality(LeadsOf(leads, o))
              /\ teamData[i].revenue = PipelineValue(leads, o)
              /\ teamData[i].won = WonOf(leads, o)

\* C12: the leaderboard rows are in non-increasing order of pipelineValue, and
\* rows of equal pipelineValue are in the order in which their owners were
\* first encountered in the leads.
C12_SortedStable ==
    ~loading =>
        \A i, j \in DOMAIN teamData :
            i < j =>
                /\ teamData[i].revenue >= teamData[j].revenue
                /\ teamData[i].revenue = teamData[j].revenue
                   => FirstSeen(leads, teamData[i].name) < FirstSeen(leads, teamData[j].name)

SourcesOf(ls) == {ls[j].source : j \in DOMAIN ls}

LeadsFrom(ls, src) == Cardinality({j \in DOMAIN ls : ls[j].source = src})

SourceTotalSum ==
    LET F[i \in 0..Len(sourceConversionData)] ==
            IF i = 0 THEN 0 ELSE F[i - 1] + sourceConversionData[i].total
    IN F[Len(sourceConversionData)]

\* C13: source conversion has exactly one row per source that occurs in the
\* leads; each row's totalCount is the number of leads of that source, at
\* least 1; the totalCounts add up to the number of leads; a source without
\* leads has no row.
C13_SourceRows ==
    ~loading =>
        /\ Len(sourceConversionData) = Cardinality(SourcesOf(leads))
        /\ \A i \in DOMAIN sourceConversionData :
              /\ sourceConversionData[i].name \in SourcesOf(leads)
              /\ sourceConversionData[i].total >= 1
              /\ sourceConversionData[i].total
                    = LeadsFrom(leads, sourceConversionData[i].name)
        /\ \A i, j \in DOMAIN sourceConversionData :
              sourceConversionData[i].name = sourceConversionData[j].name => i = j
        /\ SourceTotalSum = Len(leads)

C13_Witness ==
    /\ ~loading
    /\ Len(leads) = 4
    /\ LeadsFrom(leads, "Website") = 3
    /\ LeadsFrom(leads, Unrecognized) = 1
    /\ LeadsFrom(leads, "Referral") = 0
    /\ Len(sourceConversionData) = 2
    /\ SourceTotalSum = 4

\* won / total * 100 rounded half away from zero to one decimal, in tenths:
\* the integer n with n - 1/2 <= 1000 * won / total < n + 1/2
HalfAwayTenths(won, total) ==
    CHOOSE n \in 0..1000 :
        /\ (2 * n - 1) * total <= 2000 * won
        /\ 2000 * won < (2 * n + 1) * total

\* C14: the winRatePercent of a source row is (wonCount / totalCount) * 100
\* rounded half away from zero to one decimal place; 1 Won lead of 3 gives 33.3
\* with totalCount 3.
C14_RateHalfAway ==
    rateRow # Null =>
        /\ rateRow.rate = HalfAwayTenths(stat.won, stat.total)
        /\ rateRow.total = stat.total
        /\ (stat.won = 1 /\ stat.total = 3) => rateRow.rate = 333

----------------------------------------------------------------------------
(* Stage changes.  Every step of SpecStage is one run of handleStageChange: *)
(* lead is the lead it was given, targetValue' the stage it was asked for,  *)
(* lead' the lead it built.                                                 *)

\* C15: a stage change to Won sets probability 100 and status Won; to Lost,
\* probability 0 and status Lost; to Proposal, probability 70 and status
\* Open; to Qualified, probability 40 and status Open; to New or Contacted it
\* leaves the probability as it was and sets status Open, whatever the
\* lead's stage, status and probability were.
C15_StageTable ==
    [][/\ targetValue' = "Won" => lead'.probability = 100 /\ lead'.status = "Won"
       /\ targetValue' = "Lost" => lead'.probability = 0 /\ lead'.status = "Lost"
       /\ targetValue' = "Proposal" => lead'.probability = 70 /\ lead'.status = "Open"
       /\ targetValue' = "Qualified" => lead'.probability = 40 /\ lead'.status = "Open"
       /\ targetValue' \in {"New", "Contacted"}
          => lead'.probability = lead.probability /\ lead'.status = "Open"]_vars

C15_Witness ==
    /\ inputLead # Null
    /\ inputLead.stage = "Won"
    /\ inputLead.status = "On Hold"
    /\ inputLead.probability = 25
    /\ targetValue = "Contacted"
    /\ lead.stage = "Contacted"
    /\ lead.probability = 25
    /\ lead.status = "Open"

\* x = d * prob / 100 as numbers, for a double x, a deal value d that is ''
\* or an integer, and an integer prob
IsPercentOf(x, d, prob) ==
    BigTrim(BigMulSmall(ToNumber(x).m, 100, 0))
        = BigTrim(BigMulSmall(BigMulSmall(BigPow2(ToNumber(x).e), BigToInt(ToNumber(d).m), 0),
                              prob, 0))

\* C16: after every stage change, changes to New or Contacted included, the
\* resulting lead has expectedValue = dealValue * probability / 100, for its
\* dealValue and its resulting probability.
C16_ExpectedValue ==
    [][IsPercentOf(lead'.expectedValue, lead'.dealValue, lead'.probability)]_vars

\* C17: a stage change is idempotent: asked for the stage the lead was just
\* changed to, the handler builds a lead equal in every field to the one it
\* was given.
C17_Idempotent ==
    [][targetValue' = targetValue => lead' = lead]_vars

C17_Witness ==
    /\ now >= 2
    /\ targetValue = "Contacted"
    /\ inputLead # Null
    /\ inputLead.stage = "Contacted"
    /\ inputLead = lead
    /\ lead.probability = 25

\* C18: stage changes are unrestricted and total: whatever the stage of the
\* lead shown and whichever of the six stages is asked for, the handler
\* does not return early or refuse: it builds a lead, and that lead has the
\* stage asked for.
C18_Unrestricted ==
    [][/\ lead' # Null
       /\ lead'.stage = targetValue'
       /\ inputLead' # Null]_vars

C18_Witness ==
    /\ inputLead # Null
    /\ inputLead.stage = "Lost"
    /\ inputLead.status = "Lost"
    /\ targetValue = "New"
    /\ lead.stage = "New"
    /\ sheetLeads[1].stage = "New"

StatusFollowsStage(l) ==
    /\ l.status = "Won" <=> l.stage = "Won"
    /\ l.status = "Lost" <=> l.stage = "Lost"

\* C19: in every state reached by creating leads, changing stages, logging
\* activities and reassigning owners, every lead, in the sheet and on the
\* page, has status Won exactly if its stage is Won and status Lost exactly
\* if its stage is Lost.
C19_StatusFollowsStage ==
    /\ \A i \in DOMAIN sheetLeads : StatusFollowsStage(sheetLeads[i])
    /\ lead # Null => StatusFollowsStage(lead)

C19_Witness ==
    /\ Len(sheetLeads) = 1
    /\ sheetLeads[1].stage = "Lost"
    /\ sheetLeads[1].status = "Lost"
    /\ sheetLeads[1].lastContactedAt # EmptyString
    /\ lead = sheetLeads[1]

StageFields == {"stage", "status", "probability", "expectedValue"}

\* C20: a stage change builds a new lead that differs from the lead it was
\* given in stage, status, probability and expectedValue only, and leaves
\* the lead it was given as it was.
C20_Frame ==
    [][/\ DOMAIN lead' = DOMAIN lead
       /\ \A f \in DOMAIN lead \ StageFields : lead'[f] = lead[f]
       /\ inputLead' = lead]_vars

C20_Witness ==
    /\ inputLead # Null
    /\ inputLead.stage = "New"
    /\ inputLead.status = "On Hold"
    /\ inputLead.probability = 25
    /\ lead.stage = "Won"
    /\ lead.status = "Won"
    /\ lead.probability = 100
    /\ lead.expectedValue = NumberOfInt(1000)
    /\ lead.dealValue = inputLead.dealValue
    /\ lead.leadOwner = inputLead.leadOwner

----------------------------------------------------------------------------
(* The Activities sheet *)

\* the rows of the Leads sheet an activity row refers to
LeadsReferenced(leadRows, a) == {j \in DOMAIN leadRows : leadRows[j].id = a.leadId}

\* C21: once an activity is stored it stays in the Activities sheet, in its
\* place and with every field unchanged, whatever operation runs next
\* (creating or updating leads, changing stage, logging further activities),
\* and every stored activity references exactly one lead
C21_ActivitiesImmutable ==
    [][/\ \A i \in DOMAIN sheetActivities :
            /\ i \in DOMAIN sheetActivities'
            /\ sheetActivities'[i] = sheetActivities[i]
       /\ \A i \in DOMAIN sheetActivities' :
            Cardinality(LeadsReferenced(sheetLeads', sheetActivities'[i])) = 1]_vars

\* two activities are stored, the second logged after the first, and the
\* lead they belong to was updated with the later contact time
C21_Witness ==
    /\ Len(sheetActivities) = 2
    /\ sheetActivities[1].dateTime < sheetActivities[2].dateTime
    /\ \E j \in DOMAIN sheetLeads :
          /\ sheetLeads[j].id = sheetActivities[1].leadId
          /\ sheetLeads[j].lastContactedAt = toISOString(sheetActivities[2].dateTime)

----------------------------------------------------------------------------
(* The follow-up email *)

\* the service is unavailable for the latest request: no key is configured,
\* or the call was rejected or resolved without text
Unavailable(key, reply) ==
    IF key = "" THEN TRUE ELSE reply.rejected \/ reply.text = Null

\* the subject and body the specification asks for when the service is
\* unavailable, built from company name, lead name, industry and budget range
FallbackOf(l) ==
    [subject |-> [str |-> <<"Follow up regarding ">> \o l.companyName.str],
     body |-> [str |-> <<"Hi ">> \o l.leadName.str
                       \o <<",\n\nI hope you're having a great day. I wanted to follow up on our last conversation regarding solutions for ">>
                       \o l.industry.str
                       \o <<". \n\nGiven your interest in our ">>
                       \o <<l.budgetRange>>
                       \o <<" tier, I believe we can offer significant value.\n\nAre you free for a quick chat this week?\n\nBest,\n[Your Name]">>]]

\* C22: whenever the text-generation service is unavailable (no API key, or
\* the call fails or returns no text), generateFollowUpEmail returns the
\* templated subject and body built from the lead's company name, lead name,
\* industry and budget range
C22_FallbackWhenUnavailable ==
    [][Unavailable(apiKey', response') => aiEmail' = FallbackOf(lead)]_vars

----------------------------------------------------------------------------
(* The leads of the store *)

\* the rows of the Leads sheet and, when LeadDetail shows one, its lead
StoredLeads ==
    {sheetLeads[i] : i \in DOMAIN sheetLeads} \cup (IF lead = Null THEN {} ELSE {lead})

\* C23: in every state reachable by creating leads, logging activities,
\* changing stages and reassigning owners, every stored lead's leadScore is
\* an integer from 0 to 100
C23_StoredScoreInRange == \A l \in StoredLeads : l.leadScore \in 0..100

\* a row of the Leads sheet holds the score 0 while an activity is stored
\* for it: the score was written by handleAddActivity
C23_Witness ==
    \E i \in DOMAIN sheetLeads :
        /\ sheetLeads[i].leadScore = 0
        /\ \E k \in DOMAIN sheetActivities :
              sheetActivities[k].leadId = sheetLeads[i].id

----------------------------------------------------------------------------
(* Two sessions on one lead *)

ActivityFields == {"leadScore", "lastContactedAt"}

\* the Leads row of the lead on the page
RowOf(rows, l) == rows[rowIndex(rows, l.id)]

\* the row and the page's lead differ at most in the fields F: an update of
\* F was written from the snapshot the page holds
AgreeOutside(F) == \A f \in LeadHeaders \ F : RowOf(sheetLeads, lead)[f] = lead[f]

KeepsFields(F) ==
    \A f \in F : RowOf(sheetLeads', lead)[f] = RowOf(sheetLeads, lead)[f]

\* C24: when a stage change and an activity log for one lead start from the
\* same loaded snapshot, then after both writes the persisted lead carries
\* the new stage, status, probability and expectedValue and the new
\* leadScore and lastContactedAt: the write that comes second changes the
\* fields of its own update and keeps those of the other
C24_BothUpdatesKept ==
    [][(lead # Null /\ (AgreeOutside(StageFields) \/ AgreeOutside(ActivityFields)))
          => (KeepsFields(StageFields) \/ KeepsFields(ActivityFields))]_vars

\* C26: after handleAddActivity completes, the persisted leadScore of the
\* lead is calculateLeadScore of the lead and its complete stored history,
\* latest first, also when another session stored activities for the lead
\* after this page loaded its list
C26_ScoreOfStoredHistory ==
    [][Len(activities') > Len(activities)
          => RowOf(sheetLeads', lead).leadScore
                = calculateLeadScore(RowOf(sheetLeads', lead),
                                     getActivities(sheetActivities', lead.id))]_vars

\* C25: in every reachable state of the lead store, right after creation
\* (probability 10) and after any stage changes, activity logs and owner
\* reassignments, every stored lead has
\* expectedValue = dealValue * probability / 100 as numbers
C25_StoredExpectedValue ==
    \A l \in StoredLeads : IsPercentOf(l.expectedValue, l.dealValue, l.probability)

\* C27: when persistence fails while an activity is logged or a lead is
\* created, the busy flag of the handler is reset, as handleGenerateEmail
\* resets isGeneratingEmail: whenever a handler has ended, resolved or
\* rejected, isSavingActivity, isSubmitting and isGeneratingEmail are false
C27_BusyFlagsReset == ~isSavingActivity /\ ~isSubmitting /\ ~isGeneratingEmail

\* C28: create-then-read round trip: the row read back for a lead passed to
\* createLead has the lead's value in every column the lead has, a value of
\* 0 (dealValue 0, expectedValue 0) included
C28_CreateReadRoundTrip ==
    [][Len(sheetLeads') > Len(sheetLeads)
          => \E newLead \in FormInputs, owner \in UserEmails :
                LET passed == leadToCreate(newLead, owner, now')
                    read == getLeadById(sheetLeads', passed.id)
                IN \A c \in DOMAIN passed : read[c] = passed[c]]_vars

----------------------------------------------------------------------------
(* The score for enum inputs *)

FromEnums ==
    /\ lead.source \in Source
    /\ lead.budgetRange \in BudgetRange
    /\ \A i \in DOMAIN activities : activities[i].outcome \in ActivityOutcome

\* C29: for inputs drawn from the declared enums the score is at most 80
\* and a multiple of 5, and it is the plain sum of the four contributions:
\* the clamp at 100 does not change it
C29_AtMost80 ==
    (scored /\ FromEnums) =>
        /\ score <= 80
        /\ score % 5 = 0
        /\ score = SourcePoints(lead.source) + BudgetPoints(lead.budgetRange)
                    + EngagementPoints(activities) + VolumePoints(activities)

\* the highest score: Referral, >10L, the longest history, latest Interested
C29_Witness ==
    /\ scored
    /\ FromEnums
    /\ lead.source = "Referral"
    /\ lead.budgetRange = ">10L"
    /\ Len(activities) = MaxActs
    /\ activities[1].outcome = "Interested"
    /\ activities[MaxActs].outcome = "Not Interested"
    /\ score = 80

----------------------------------------------------------------------------
(* Probability and stage in the store *)

\* C30: after lead creation and any stage changes, each lead's probability
\* is one of 0, 10, 40, 70, 100, and a lead in stage Qualified, Proposal,
\* Won or Lost has probability 40, 70, 100 or 0; only for New and Contacted
\* does it depend on the earlier stages
C30_ProbabilityOfStage ==
    \A l \in StoredLeads :
        /\ l.probability \in {0, 10, 40, 70, 100}
        /\ l.stage = "Qualified" => l.probability = 40
        /\ l.stage = "Proposal" => l.probability = 70
        /\ l.stage = "Won" => l.probability = 100
        /\ l.stage = "Lost" => l.probability = 0

\* a lead that was Lost and is Contacted now keeps probability 0, in the
\* Leads sheet too
C30_Witness ==
    /\ lead # Null
    /\ lead.stage = "Contacted"
    /\ lead.probability = 0
    /\ getLeadById(sheetLeads, lead.id) = lead

====
